---- MODULE Spec2Model ----
(***************************************************************************)
(* Model of the PDF page organizer (src/utils/pdf-organizer.ts) and of the *)
(* PDF compressor (src/utils/test-compression.ts and                       *)
(* src/utils/enhanced-pdf-compression.ts).                                 *)
(*                                                                         *)
(* Spec          the organizer session: loadPDF, rotatePage, movePage,     *)
(*               togglePageVisibility, deletePage, exportPDF               *)
(* SpecReorder   the organizer class reordering a three-page document      *)
(* SpecCompress  one invocation of EnhancedPDFCompressor.compressPDF,      *)
(*               statement by statement                                    *)
(* SpecMedia     one invocation of compressFile on an image or a video     *)
(* SpecBatch     the page's handleCompression over the selected files      *)
(***************************************************************************)
EXTENDS Integers, Sequences, FiniteSets, TLC

\* ------------------------------------------------------------------ bounds
\* largest page count of a document loaded into the organizer
MaxPages == 2
\* largest size in bytes of the small input files given to the compressor
MaxSize == 3
\* page count of the document of the sessions that are only reordered
ReorderPages == 3
\* largest size in bytes of the small images and videos
MaxMediaSize == 3
\* largest number of files in the selection of the page
MaxFiles == 3

VARIABLES
    \* --- EnhancedPDFCompressor.compressPDF, one invocation
    cpc,            \* position in compressPDF
    impl,           \* which of the two source files defines the class
    file,           \* the File argument: size and declared type
    options,        \* the PDFCompressionOptions argument
    now,            \* what new Date() returns during the invocation
    doc,            \* pdfDoc, the loaded PDFDocument
    analysis,       \* contentAnalysis
    optimizations,  \* the optimizations array
    bestBlob,       \* applyUltraAggressiveCompression: bestBlob
    bestSize,       \* applyUltraAggressiveCompression: bestSize
    finalBlob,      \* finalCompressedBlob / compressedBlob
    caught,         \* the error compressPDF's catch block received
    console,        \* what the runner has written with console.log
    currentBlob,    \* Strategy 2: currentBlob, the first pass, while in scope
    least,          \* history: the first-produced smallest candidate of the run
    result,         \* what the invocation returned or threw
    \* --- PDFOrganizer
    pdfDoc,     \* PDFOrganizer.pdfDoc: Null, or the page count of the loaded source document
    pages,      \* PDFOrganizer.pages: the array of PDFPageInfo
    exported,   \* outcome of the exportPDF call that has just returned, if any
    lastOp,     \* the call that has just returned: name, arguments, whether it threw
    run,        \* history: the current run of consecutive rotatePage(id, 'right') calls
    deleted,    \* history: ids removed by deletePage since the last load
    \* --- compressFile on an image or a video, one invocation
    mediaPc,            \* position in compressFile and the functions it calls
    mediaFile,          \* the File argument: size and type
    recorderSupported,  \* MediaRecorder exists and supports video/webm;codecs=vp9
    mediaResult,        \* what the invocation returned or threw
    \* --- Home.handleCompression
    selectedFiles,      \* state selectedFiles
    isCompressing,      \* state isCompressing
    compressionProgress,\* state compressionProgress
    compressionResults, \* state compressionResults
    hpc,                \* position in handleCompression
    batch,              \* selectedFiles as the running handler's closure holds it
    results,            \* the local array results
    idx,                \* the loop variable i
    succeeded           \* history: positions in batch of the files whose compression returned

orgVars == <<pdfDoc, pages, exported, lastOp, run, deleted>>
cVars == <<cpc, impl, file, options, now, doc, analysis, optimizations,
           bestBlob, bestSize, finalBlob, caught, result,
           console, currentBlob, least>>
mVars == <<mediaPc, mediaFile, recorderSupported, mediaResult>>
hVars == <<selectedFiles, isCompressing, compressionProgress, compressionResults,
           hpc, batch, results, idx, succeeded>>
appVars == <<mVars, hVars>>
vars == <<orgVars, cVars, appVars>>

\* ------------------------------------------------------------- organizer

\* pdfDoc: PDFDocument | null = null
Null == -1

\* the value JavaScript reads from an array slot that holds `undefined`
NoId == -1
Undefined == [id |-> NoId, pageNumber |-> 0, rotation |-> 0, visible |-> FALSE]
IsUndefined(p) == p.id = NoId

\* page ids a caller can pass: those of a loaded document and one that no
\* document of the model has
PageIds == 0 .. MaxPages
PageCounts == 0 .. MaxPages

RotateDirs == {"left", "right"}
MoveDirs == {"up", "down"}

\* JavaScript's % takes the sign of the dividend
JSRem(a, m) == IF a >= 0 THEN a % m ELSE 0 - ((0 - a) % m)

\* page.rotation + (direction === 'left' ? -90 : 90)) % 360
Rotated(rotation, direction) ==
    JSRem(rotation + (IF direction = "left" THEN 0 - 90 ELSE 90), 360)

\* index (1-based) of the first record whose id is pageId, 0 when there is none
FirstMatch(pageId) ==
    IF \E i \in 1 .. Len(pages) : ~IsUndefined(pages[i]) /\ pages[i].id = pageId
    THEN CHOOSE i \in 1 .. Len(pages) :
            /\ ~IsUndefined(pages[i]) /\ pages[i].id = pageId
            /\ \A j \in 1 .. (i - 1) : IsUndefined(pages[j]) \/ pages[j].id # pageId
    ELSE 0

\* find / findIndex call `p.id` on every element up to the first match; on an
\* `undefined` element that is a TypeError
FindThrows(pageId) ==
    LET m == FirstMatch(pageId)
        last == IF m = 0 THEN Len(pages) ELSE m - 1
    IN  \E j \in 1 .. last : IsUndefined(pages[j])

\* filter and for..of visit every element
HasHole == \E j \in 1 .. Len(pages) : IsUndefined(pages[j])

NoExport == [status |-> "none", pages |-> <<>>]
NoRun == [id |-> NoId, start |-> 0, count |-> 0]
Op(name, id, dir, threw) == [op |-> name, id |-> id, dir |-> dir, threw |-> threw]

\* Array.from({ length: pageCount }, (_, i) => ({ id: i, pageNumber: i + 1, ... }))
LoadedPages(pageCount) ==
    [i \in 1 .. pageCount |->
        [id |-> i - 1, pageNumber |-> i, rotation |-> 0, visible |-> TRUE]]

\* loadPDF on a file that parses: a document of pageCount pages
LoadPDF(pageCount) ==
    /\ UNCHANGED <<cVars, appVars>>
    /\ pdfDoc' = pageCount
    /\ pages' = LoadedPages(pageCount)
    /\ exported' = NoExport
    /\ lastOp' = Op("loadPDF", NoId, "-", FALSE)
    /\ run' = NoRun
    /\ deleted' = {}

\* loadPDF on a file that does not parse: PDFDocument.load throws before
\* this.pdfDoc and this.pages are assigned
LoadPDFFails ==
    /\ UNCHANGED <<cVars, appVars>>
    /\ lastOp' = Op("loadPDF", NoId, "-", TRUE)
    /\ exported' = NoExport
    /\ run' = NoRun
    /\ UNCHANGED <<pdfDoc, pages, deleted>>

\* the run of consecutive rotatePage(pageId, 'right') calls, at most the last four
RunAfter(pageId, direction, before) ==
    IF direction # "right" THEN NoRun
    ELSE IF run.id = pageId /\ run.count >= 1
         THEN IF run.count < 4
              THEN [run EXCEPT !.count = run.count + 1]
              ELSE [run EXCEPT !.start = Rotated(run.start, "right")]
         ELSE [id |-> pageId, start |-> before, count |-> 1]

RotatePage(pageId, direction) ==
    LET m == FirstMatch(pageId)
    IN  /\ UNCHANGED <<cVars, appVars>>
        /\ exported' = NoExport
        /\ UNCHANGED <<pdfDoc, deleted>>
        /\ IF FindThrows(pageId)
           THEN /\ lastOp' = Op("rotatePage", pageId, direction, TRUE)
                /\ run' = NoRun
                /\ UNCHANGED pages
           ELSE /\ lastOp' = Op("rotatePage", pageId, direction, FALSE)
                /\ IF m # 0
                   THEN /\ pages' = [pages EXCEPT ![m].rotation =
                                        Rotated(pages[m].rotation, direction)]
                        /\ run' = RunAfter(pageId, direction, pages[m].rotation)
                   ELSE /\ UNCHANGED pages
                        /\ run' = NoRun

Swap(s, i, j) == [s EXCEPT ![i] = s[j], ![j] = s[i]]

\* movePage with `<=` for `<` in the guard of 'down': the last record is
\* swapped with the slot after the end of the array
MovedPages_OffByOne(m, direction) ==
    IF direction = "up" /\ m - 1 > 0
    THEN Swap(pages, m, m - 1)
    ELSE IF direction = "down" /\ m - 1 <= Len(pages) - 1
         THEN IF m = 0
              THEN IF Len(pages) = 0 THEN <<Undefined>>
                   ELSE [pages EXCEPT ![1] = Undefined]
              ELSE IF m = Len(pages)
                   THEN Append([pages EXCEPT ![m] = Undefined], pages[m])
                   ELSE Swap(pages, m, m + 1)
         ELSE pages

\* movePage swapping only with a neighbour that is visible
MovedPages_SkipsHidden(m, direction) ==
    IF direction = "up" /\ m - 1 > 0
    THEN IF pages[m - 1].visible THEN Swap(pages, m, m - 1) ELSE pages
    ELSE IF direction = "down" /\ m - 1 < Len(pages) - 1
         THEN IF m = 0
              THEN [pages EXCEPT ![1] = Undefined]
              ELSE IF pages[m + 1].visible THEN Swap(pages, m, m + 1) ELSE pages
         ELSE pages

\* the array after movePage; m is the 1-based index of the record, 0 when
\* findIndex returned -1
MovedPages(m, direction) ==
    IF direction = "up" /\ m - 1 > 0
    THEN Swap(pages, m, m - 1)
    ELSE IF direction = "down" /\ m - 1 < Len(pages) - 1
         THEN IF m = 0
              \* [pages[-1], pages[0]] = [pages[0], pages[-1]]: slot 0 receives
              \* undefined; the old first record goes to the property "-1",
              \* which no method ever reads
              THEN [pages EXCEPT ![1] = Undefined]
              ELSE Swap(pages, m, m + 1)
         ELSE pages

MovePage(pageId, direction) ==
    /\ UNCHANGED <<cVars, appVars>>
    /\ exported' = NoExport
    /\ run' = NoRun
    /\ UNCHANGED <<pdfDoc, deleted>>
    /\ IF FindThrows(pageId)
       THEN /\ lastOp' = Op("movePage", pageId, direction, TRUE)
            /\ UNCHANGED pages
       ELSE /\ lastOp' = Op("movePage", pageId, direction, FALSE)
            /\ pages' = MovedPages(FirstMatch(pageId), direction)

\* togglePageVisibility setting the flag to false instead of negating it
Toggled_HideOnly(p) == [p EXCEPT !.visible = FALSE]

\* page.visible = !page.visible
Toggled(p) == [p EXCEPT !.visible = ~p.visible]

TogglePageVisibility(pageId) ==
    LET m == FirstMatch(pageId)
    IN  /\ UNCHANGED <<cVars, appVars>>
        /\ exported' = NoExport
        /\ run' = NoRun
        /\ UNCHANGED <<pdfDoc, deleted>>
        /\ IF FindThrows(pageId)
           THEN /\ lastOp' = Op("togglePageVisibility", pageId, "-", TRUE)
                /\ UNCHANGED pages
           ELSE /\ lastOp' = Op("togglePageVisibility", pageId, "-", FALSE)
                /\ IF m # 0
                   THEN pages' = [pages EXCEPT ![m] = Toggled(pages[m])]
                   ELSE UNCHANGED pages

\* deletePage filtering by array index instead of by id
Filtered_ByIndex(pageId) ==
    LET keep == {i \in 1 .. Len(pages) : i - 1 # pageId}
        Nth(k) == CHOOSE i \in keep : Cardinality({j \in keep : j < i}) = k - 1
    IN  [k \in 1 .. Cardinality(keep) |-> pages[Nth(k)]]

\* deletePage hiding the record instead of removing it
Filtered_Hide(pageId) ==
    [i \in 1 .. Len(pages) |->
        IF pages[i].id = pageId THEN [pages[i] EXCEPT !.visible = FALSE] ELSE pages[i]]

\* this.pages.filter(page => page.id !== pageId)
Filtered(pageId) ==
    LET Keep(p) == p.id # pageId IN SelectSeq(pages, Keep)

DeletePage(pageId) ==
    /\ UNCHANGED <<cVars, appVars>>
    /\ exported' = NoExport
    /\ run' = NoRun
    /\ UNCHANGED pdfDoc
    /\ IF HasHole
       THEN /\ lastOp' = Op("deletePage", pageId, "-", TRUE)
            /\ UNCHANGED <<pages, deleted>>
       ELSE /\ lastOp' = Op("deletePage", pageId, "-", FALSE)
            /\ pages' = Filtered(pageId)
            /\ deleted' = IF FirstMatch(pageId) # 0
                          THEN deleted \cup {pageId} ELSE deleted

\* the page PDFDocument.save() adds to a document that has no page
\* (addDefaultPage defaults to true)
DefaultPage == [src |-> NoId, rotation |-> 0]

Visible(s) == LET IsVisible(p) == p.visible IN SelectSeq(s, IsVisible)

\* exportPDF without the test of pageInfo.visible
CopiedPages_AllRecords ==
    [k \in 1 .. Len(pages) |-> [src |-> pages[k].id, rotation |-> pages[k].rotation]]

\* the pages of newPdfDoc after the loop: one copy of source page pageInfo.id
\* per visible record, in array order, with the record's rotation
CopiedPages ==
    LET v == Visible(pages)
    IN  [k \in 1 .. Len(v) |-> [src |-> v[k].id, rotation |-> v[k].rotation]]

SavedPages(copied) == IF Len(copied) = 0 THEN <<DefaultPage>> ELSE copied

\* exportPDF removing the hidden records from the session as it goes
PagesAfterExport_DropsHidden == Visible(pages)

\* this.pages after exportPDF: the method reads the array and assigns nothing
PagesAfterExport == pages

ExportPDF ==
    /\ UNCHANGED <<cVars, appVars>>
    /\ run' = NoRun
    /\ pages' = PagesAfterExport
    /\ UNCHANGED <<pdfDoc, deleted>>
    /\ IF pdfDoc = Null
       THEN /\ exported' = [status |-> "No PDF loaded", pages |-> <<>>]
            /\ lastOp' = Op("exportPDF", NoId, "-", TRUE)
       ELSE IF HasHole
            THEN /\ exported' = [status |-> "Failed to export PDF", pages |-> <<>>]
                 /\ lastOp' = Op("exportPDF", NoId, "-", TRUE)
            ELSE /\ exported' = [status |-> "ok", pages |-> SavedPages(CopiedPages)]
                 /\ lastOp' = Op("exportPDF", NoId, "-", FALSE)

OrgInit ==
    /\ pdfDoc = Null
    /\ pages = <<>>
    /\ exported = NoExport
    /\ lastOp = Op("new", NoId, "-", FALSE)
    /\ run = NoRun
    /\ deleted = {}

\* the ids of the records in the session: the handles a caller holds
SessionIds == {pages[i].id : i \in {j \in 1 .. Len(pages) : ~IsUndefined(pages[j])}}

\* the organizer page: disabled={page.id === 0} on Move Up,
\* disabled={page.id === pages.length - 1} on Move Down
MoveUpDisabled(page) == page.id = 0
MoveDownDisabled(page) == page.id = Len(pages) - 1

\* the move button of the card of record id is enabled
MoveEnabled(id, direction) ==
    LET page == pages[FirstMatch(id)]
    IN  IF direction = "up" THEN ~MoveUpDisabled(page) ELSE ~MoveDownDisabled(page)

\* the session driven through the ids of its own records, as the organizer
\* page drives it: every handler there is bound to a record of getPages(),
\* and a move needs its button enabled
OrgNext ==
    \/ \E n \in PageCounts : LoadPDF(n)
    \/ LoadPDFFails
    \/ \E id \in SessionIds, d \in RotateDirs : RotatePage(id, d)
    \/ \E id \in SessionIds, d \in MoveDirs : MoveEnabled(id, d) /\ MovePage(id, d)
    \/ \E id \in SessionIds : TogglePageVisibility(id)
    \/ \E id \in SessionIds : DeletePage(id)
    \/ ExportPDF

\* the class on a document of ReorderPages pages, called with the ids of its
\* records to reorder, hide and turn them
OrgNextReorder ==
    \/ LoadPDF(ReorderPages)
    \/ \E id \in SessionIds : RotatePage(id, "right")
    \/ \E id \in SessionIds, d \in MoveDirs : MovePage(id, d)
    \/ \E id \in SessionIds : TogglePageVisibility(id)

\* the class called with any number as pageId, ids of no record included
OrgNextApi ==
    \/ \E n \in PageCounts : LoadPDF(n)
    \/ LoadPDFFails
    \/ \E id \in PageIds, d \in RotateDirs : RotatePage(id, d)
    \/ \E id \in PageIds, d \in MoveDirs : MovePage(id, d)
    \/ \E id \in PageIds : TogglePageVisibility(id)
    \/ \E id \in PageIds : DeletePage(id)
    \/ ExportPDF

\* ------------------------------------------------------------ compressor
Impls == {"test-compression", "enhanced-pdf-compression"}
Qualities == {"screen", "ebook", "printer", "prepress"}
PdfType == "application/pdf"
FileTypes == {PdfType, "image/png"}

\* 100 * 1024 * 1024 // 100MB limit
MaxFileSize == 100 * 1024 * 1024
MB == 1024 * 1024

\* sizes of the input file: empty, small, at the limit, over the limit
FileSizes == (0 .. MaxSize) \cup {MaxFileSize, MaxFileSize + 1}

\* sizes a serialization of the document can have: smaller than, equal to
\* and larger than the input
OutSizes(orig) ==
    {s \in (1 .. (MaxSize + 1)) \cup {orig - 1, orig, orig + 1} : s >= 1}

\* quality?: 'screen' | 'ebook' | 'printer' | 'prepress', removeMetadata?,
\* optimizeImages?, compressFonts?  (removeUnusedObjects only selects a call
\* of removeUnusedObjects, which returns false and changes nothing)
OptionSets ==
    [quality : Qualities \cup {"undefined"},
     removeMetadata : BOOLEAN,
     optimizeImages : BOOLEAN,
     compressFonts : BOOLEAN]

\* two moments at which compressPDF can be invoked
Times == {"t1", "t2"}

\* the loaded document: page count, whether it has a title or an author,
\* the number of its form fields, whether its catalog has an AcroForm entry
\* (it has when there are fields), and its creation and modification dates
LoadedDocs ==
    {d \in [pageCount : {0, 1, 11, 51},
            titleOrAuthor : BOOLEAN,
            formFields : {0, 1},
            acroForm : BOOLEAN,
            dates : {"original"}] : d.formFields > 0 => d.acroForm}

NoDoc ==
    [pageCount |-> 0, titleOrAuthor |-> FALSE, formFields |-> 0,
     acroForm |-> FALSE, dates |-> "none"]

\* pdfDoc.getForm(): pdf-lib returns the form of the catalog's AcroForm entry
\* and creates that entry when the catalog has none
GetForm(d) == [d EXCEPT !.acroForm = TRUE]

\* what error.message.includes(...) finds in a caught error
ErrorKinds == {"Invalid PDF", "password", "other"}

\* let bestSize = Infinity
Infinity == -1

\* the comparison with bestSize taking a candidate of equal size as well
LessThan_OrEqual(size, best) == best = Infinity \/ size <= best

\* compressedBlob.size < bestSize
LessThan(size, best) == best = Infinity \/ size < best

Blob(size, from, objectsPerTick) ==
    [size |-> size, from |-> from, objectsPerTick |-> objectsPerTick]
NullBlob == Blob(0, "null", 0)

Entry(text, n) == [text |-> text, n |-> n]

\* ((file.size - size) / file.size) * 100, kept as the fraction num / den of
\* which it is the hundredfold
Ratio(original, size) == [num |-> original - size, den |-> original]
\* compressionRatio: 0
ZeroRatio == [num |-> 0, den |-> 1]

NoResult ==
    [status |-> "none", originalSize |-> 0, compressedSize |-> 0,
     compressionRatio |-> ZeroRatio, compressedBlob |-> NullBlob,
     quality |-> "none", optimizations |-> <<>>, error |-> "none"]

\* options.quality || 'screen'  (test-compression.ts),
\* options.quality || 'ebook'   (enhanced-pdf-compression.ts)
QualityOr(quality) ==
    IF quality # "undefined" THEN quality
    ELSE IF impl = "test-compression" THEN "screen" ELSE "ebook"

CInit ==
    /\ cpc = "idle"
    /\ impl = "test-compression"
    /\ file = [size |-> 0, type |-> PdfType]
    /\ options = [quality |-> "undefined", removeMetadata |-> FALSE,
                  optimizeImages |-> FALSE, compressFonts |-> TRUE]
    /\ now = "t1"
    /\ doc = NoDoc
    /\ analysis = "none"
    /\ optimizations = <<>>
    /\ bestBlob = NullBlob
    /\ bestSize = Infinity
    /\ finalBlob = NullBlob
    /\ caught = "none"
    /\ result = NoResult
    /\ console = <<>>
    /\ currentBlob = NullBlob
    /\ least = NullBlob

\* compressPDF(file, options) is called
Invoke(i, f, o, t) ==
    /\ cpc = "idle"
    /\ cpc' = "validate"
    /\ impl' = i
    /\ file' = f
    /\ options' = o
    /\ now' = t
    /\ doc' = NoDoc
    /\ analysis' = "none"
    /\ optimizations' = <<>>
    /\ bestBlob' = NullBlob
    /\ bestSize' = Infinity
    /\ finalBlob' = NullBlob
    /\ caught' = "none"
    /\ result' = NoResult
    /\ UNCHANGED <<console, currentBlob, least>>
    /\ UNCHANGED <<orgVars, appVars>>

Thrown(message) == [NoResult EXCEPT !.status = "threw", !.error = message]

\* the checks before the try block without the size limit
ValidationError_NoSizeLimit ==
    IF file.size = 0 THEN "Invalid PDF file: File is empty or undefined"
    ELSE IF file.type # PdfType THEN "Invalid file type: Only PDF files are supported"
    ELSE "none"

\* the three checks before the try block
ValidationError ==
    IF file.size = 0 THEN "Invalid PDF file: File is empty or undefined"
    ELSE IF file.type # PdfType THEN "Invalid file type: Only PDF files are supported"
    ELSE IF file.size > MaxFileSize THEN "File too large: Maximum file size is 100MB"
    ELSE "none"

Validate ==
    /\ cpc = "validate"
    /\ IF ValidationError # "none"
       THEN /\ result' = Thrown(ValidationError)
            /\ cpc' = "done"
       ELSE /\ cpc' = "load"
            /\ UNCHANGED result
    /\ UNCHANGED <<impl, file, options, now, doc, analysis, optimizations,
                   bestBlob, bestSize, finalBlob, caught>>
    /\ UNCHANGED <<console, currentBlob, least>>
    /\ UNCHANGED <<orgVars, appVars>>

\* PDFDocument.load(inputBytes, { ignoreEncryption: false, updateMetadata: false })
\* returns the document d
Load(d) ==
    /\ cpc = "load"
    /\ doc' = d
    /\ cpc' = IF impl = "test-compression" THEN "analyze" ELSE "optimize"
    /\ UNCHANGED <<impl, file, options, now, analysis, optimizations,
                   bestBlob, bestSize, finalBlob, caught, result>>
    /\ UNCHANGED <<console, currentBlob, least>>
    /\ UNCHANGED <<orgVars, appVars>>

\* file.arrayBuffer() or PDFDocument.load throws an error of kind k
LoadThrows(k) ==
    /\ cpc = "load"
    /\ caught' = k
    /\ cpc' = "catch"
    /\ UNCHANGED <<impl, file, options, now, doc, analysis, optimizations,
                   bestBlob, bestSize, finalBlob, result>>
    /\ UNCHANGED <<console, currentBlob, least>>
    /\ UNCHANGED <<orgVars, appVars>>

\* analyzePDFContent: the signals
HasMetadata(d) == d.titleOrAuthor
HasEmbeddedFonts(d) == d.formFields > 0
\* page.node is set for every page, so any page sets both flags
HasImages(d) == d.pageCount > 0
HasComplexGraphics(d) == d.pageCount > 0

RecommendedStrategy(d) ==
    IF HasImages(d) /\ HasComplexGraphics(d) THEN "image_optimization"
    ELSE IF HasEmbeddedFonts(d) THEN "font_optimization"
    ELSE IF HasMetadata(d) THEN "metadata_removal"
    ELSE IF d.pageCount > 10 THEN "multi_pass"
    ELSE "ultra_aggressive"

\* analyzePDFContent(pdfDoc): the tag, and the call of getForm() on the way
AnalyzePDFContent ==
    /\ cpc = "analyze"
    /\ analysis' = RecommendedStrategy(doc)
    /\ doc' = GetForm(doc)
    /\ cpc' = "optimize"
    /\ UNCHANGED <<impl, file, options, now, optimizations,
                   bestBlob, bestSize, finalBlob, caught, result>>
    /\ UNCHANGED <<console, currentBlob, least>>
    /\ UNCHANGED <<orgVars, appVars>>

\* fileSizeMB.toFixed(1), in tenths of a megabyte
Tenths(size) == (size * 10 + MB \div 2) \div MB

\* the metadata block setting the dates only
Sanitized_KeepsTitle(d, t) == [d EXCEPT !.dates = t]

\* the fields the metadata block sets: title, author, subject, keywords,
\* creator and producer emptied, both dates set to new Date()
Sanitized(d, t) == [d EXCEPT !.titleOrAuthor = FALSE, !.dates = t]

\* the metadata block entered for the option alone
RemovesMetadata_OnlyOption(o) == o.removeMetadata

\* if (options.removeMetadata || options.quality === 'screen')   (test-compression.ts)
\* if (options.removeMetadata)                          (enhanced-pdf-compression.ts)
RemovesMetadata(o) ==
    IF impl = "test-compression"
    THEN o.removeMetadata \/ o.quality = "screen"
    ELSE o.removeMetadata

\* optimizeImages(pdfDoc, quality): one count per page
OptimizeImages(d) ==
    IF d.pageCount > 0
    THEN <<Entry("images detected for optimization", d.pageCount)>>
    ELSE <<>>

\* optimizeFonts(pdfDoc): the form fields
OptimizeFonts(d) ==
    IF d.formFields > 0
    THEN <<Entry("form fields detected", d.formFields)>>
    ELSE <<>>

\* optimizePages(pdfDoc, pageCount, fileSizeMB)
OptimizePages(d, size) ==
    <<Entry("pages processed", d.pageCount), Entry("MB input file", Tenths(size))>>
    \o (IF d.pageCount > 50
        THEN <<Entry("Large page count - aggressive compression recommended", 0)>>
        ELSE <<>>)
    \o (IF size > 20 * MB
        THEN <<Entry("Large file size - multiple compression passes recommended", 0)>>
        ELSE <<>>)

\* applyOptimizations calls optimizeFonts outside the screen branch, when
\* compressFonts is not false
CallsOptimizeFonts(o) ==
    /\ ~(impl = "test-compression" /\ o.quality = "screen")
    /\ o.compressFonts

\* the array applyOptimizations returns
AppliedOptimizations(d, o, size) ==
    (IF RemovesMetadata(o) THEN <<Entry("Metadata removed", 0)>> ELSE <<>>)
    \o (IF impl = "test-compression" /\ o.quality = "screen"
        THEN <<Entry("Aggressive font optimization applied", 0),
               Entry("Aggressive image optimization applied", 0)>>
        ELSE (IF o.optimizeImages THEN OptimizeImages(d) ELSE <<>>)
             \o (IF CallsOptimizeFonts(o) THEN OptimizeFonts(d) ELSE <<>>))
    \o OptimizePages(d, size)

\* pdfDoc after applyOptimizations: the metadata block, then getForm() in
\* optimizeFonts
OptimizedDoc(d, o, t) ==
    LET sanitized == IF RemovesMetadata(o) THEN Sanitized(d, t) ELSE d
    IN  IF CallsOptimizeFonts(o) THEN GetForm(sanitized) ELSE sanitized

\* `Content analysis: ${contentAnalysis.recommendedStrategy} strategy recommended`
ContentAnalysisEntry(strategy) ==
    Entry(CASE strategy = "image_optimization" ->
                   "Content analysis: image_optimization strategy recommended"
            [] strategy = "font_optimization" ->
                   "Content analysis: font_optimization strategy recommended"
            [] strategy = "metadata_removal" ->
                   "Content analysis: metadata_removal strategy recommended"
            [] strategy = "multi_pass" ->
                   "Content analysis: multi_pass strategy recommended"
            [] OTHER -> "Content analysis: ultra_aggressive strategy recommended",
          0)

\* the runner entered for every quality
UsesRunner_Always(o) == impl = "test-compression"

\* if (options.quality === 'screen') the runner, else one save
\* (test-compression.ts); always one save (enhanced-pdf-compression.ts)
UsesRunner(o) == impl = "test-compression" /\ o.quality = "screen"

\* applyOptimizations and, in test-compression.ts, the push of the content
\* analysis that follows it
ApplyOptimizations ==
    /\ cpc = "optimize"
    /\ doc' = OptimizedDoc(doc, options, now)
    /\ optimizations' =
          AppliedOptimizations(doc, options, file.size)
          \o (IF impl = "test-compression"
              THEN <<ContentAnalysisEntry(analysis)>> ELSE <<>>)
    /\ cpc' = IF UsesRunner(options) THEN "strategy1" ELSE "save"
    /\ UNCHANGED <<impl, file, options, now, analysis,
                   bestBlob, bestSize, finalBlob, caught, result>>
    /\ UNCHANGED <<console, currentBlob, least>>
    /\ UNCHANGED <<orgVars, appVars>>

\* getCompressionOptions(quality).objectsPerTick
GetCompressionOptions(quality) ==
    IF impl = "test-compression"
    THEN CASE quality = "screen" -> 1
           [] quality = "ebook" -> 5
           [] quality = "printer" -> 10
           [] OTHER -> 20
    ELSE CASE quality = "screen" -> 5
           [] quality = "ebook" -> 10
           [] quality = "printer" -> 15
           [] OTHER -> 20

\* pdfDoc.save(compressionOptions) returns size bytes
Save(size) ==
    /\ cpc = "save"
    /\ finalBlob' = Blob(size, "save", GetCompressionOptions(QualityOr(options.quality)))
    /\ cpc' = "gate"
    /\ UNCHANGED <<impl, file, options, now, doc, analysis, optimizations,
                   bestBlob, bestSize, caught, result>>
    /\ UNCHANGED <<console, currentBlob, least>>
    /\ UNCHANGED <<orgVars, appVars>>

SaveThrows(k) ==
    /\ cpc = "save"
    /\ caught' = k
    /\ cpc' = "catch"
    /\ UNCHANGED <<impl, file, options, now, doc, analysis, optimizations,
                   bestBlob, bestSize, finalBlob, result>>
    /\ UNCHANGED <<console, currentBlob, least>>
    /\ UNCHANGED <<orgVars, appVars>>

\* history: the smallest of the candidates offered so far, the earlier one
\* when two have the same size
FirstSmallest(size, name) ==
    IF least = NullBlob \/ size < least.size THEN Blob(size, name, 1) ELSE least

\* a strategy that produced size bytes: the candidate replaces the best one
\* and is logged when it is smaller than the best size so far
Candidate(size, name, text, next) ==
    /\ IF LessThan(size, bestSize)
       THEN /\ bestBlob' = Blob(size, name, 1)
            /\ bestSize' = size
            /\ optimizations' = Append(optimizations, Entry(text, 0))
       ELSE UNCHANGED <<bestBlob, bestSize, optimizations>>
    /\ least' = FirstSmallest(size, name)
    /\ cpc' = next
    /\ UNCHANGED <<impl, file, options, now, doc, analysis, finalBlob, caught, result>>
    /\ UNCHANGED console
    /\ UNCHANGED <<orgVars, appVars>>

\* a strategy that offers no candidate
Skipped(next) ==
    /\ cpc' = next
    /\ UNCHANGED <<impl, file, options, now, doc, analysis, optimizations,
                   bestBlob, bestSize, finalBlob, caught, result, least>>
    /\ UNCHANGED <<orgVars, appVars>>

\* a strategy whose try block threw: console.log('Strategy n failed:', error),
\* nothing else
Failed(message, next) ==
    /\ console' = Append(console, message)
    /\ Skipped(next)

\* Strategy 1: document re-creation
Strategy1(size) ==
    /\ cpc = "strategy1"
    /\ Candidate(size, "strategy1",
                 "Document re-creation with ultra-aggressive settings", "strategy2")
    /\ UNCHANGED currentBlob

Strategy1Throws ==
    /\ cpc = "strategy1"
    /\ Failed("Strategy 1 failed:", "strategy2")
    /\ UNCHANGED currentBlob

\* Strategy 2: a first pass of first bytes; when that is smaller than the best
\* size, a reload and a second pass of second bytes, which is the candidate
\* and is compared with bestSize
Strategy2(first, second) ==
    /\ cpc = "strategy2"
    /\ currentBlob' = Blob(first, "firstPass", 1)
    /\ IF LessThan(first, bestSize)
       THEN Candidate(second, "strategy2", "Multi-pass compression with reload",
                      "strategy3")
       ELSE /\ Skipped("strategy3")
            /\ UNCHANGED console

\* the first save throws
Strategy2Throws ==
    /\ cpc = "strategy2"
    /\ Failed("Strategy 2 failed:", "strategy3")
    /\ UNCHANGED currentBlob

\* the first pass returns first bytes; the reload or the second save throws
Strategy2SecondPassThrows(first) ==
    /\ cpc = "strategy2"
    /\ LessThan(first, bestSize)
    /\ currentBlob' = Blob(first, "firstPass", 1)
    /\ Failed("Strategy 2 failed:", "strategy3")

\* Strategy 3: content-aware compression; currentBlob of Strategy 2 is out
\* of scope
Strategy3(size) ==
    /\ cpc = "strategy3"
    /\ Candidate(size, "strategy3", "Content-aware compression applied", "strategy4")
    /\ currentBlob' = NullBlob

Strategy3Throws ==
    /\ cpc = "strategy3"
    /\ Failed("Strategy 3 failed:", "strategy4")
    /\ currentBlob' = NullBlob

\* Strategy 4: font and image optimization
Strategy4(size) ==
    /\ cpc = "strategy4"
    /\ Candidate(size, "strategy4", "Font optimization applied", "fallback")
    /\ UNCHANGED currentBlob

Strategy4Throws ==
    /\ cpc = "strategy4"
    /\ Failed("Strategy 4 failed:", "fallback")
    /\ UNCHANGED currentBlob

\* return bestBlob, when a strategy has set it
RunnerReturns ==
    /\ cpc = "fallback"
    /\ bestBlob # NullBlob
    /\ finalBlob' = bestBlob
    /\ cpc' = "gate"
    /\ UNCHANGED <<impl, file, options, now, doc, analysis, optimizations,
                   bestBlob, bestSize, caught, result>>
    /\ UNCHANGED <<console, currentBlob, least>>
    /\ UNCHANGED <<orgVars, appVars>>

\* if (!bestBlob): one more save of the loaded document, of size bytes
Fallback(size) ==
    /\ cpc = "fallback"
    /\ bestBlob = NullBlob
    /\ bestBlob' = Blob(size, "fallback", 1)
    /\ finalBlob' = Blob(size, "fallback", 1)
    /\ optimizations' = Append(optimizations, Entry("Fallback compression applied", 0))
    /\ cpc' = "gate"
    /\ UNCHANGED <<impl, file, options, now, doc, analysis, bestSize, caught, result>>
    /\ UNCHANGED <<console, currentBlob, least>>
    /\ UNCHANGED <<orgVars, appVars>>

\* that save is outside every try block of the runner
FallbackThrows(k) ==
    /\ cpc = "fallback"
    /\ bestBlob = NullBlob
    /\ caught' = k
    /\ cpc' = "catch"
    /\ UNCHANGED <<impl, file, options, now, doc, analysis, optimizations,
                   bestBlob, bestSize, finalBlob, result>>
    /\ UNCHANGED <<console, currentBlob, least>>
    /\ UNCHANGED <<orgVars, appVars>>

\* the comparison the wrong way round
KeepsOriginal_Reversed(size, original) == size <= original

\* the comparison without the case of equal sizes
KeepsOriginal_Strict(size, original) == size > original

\* if (finalCompressedBlob.size >= file.size)
KeepsOriginal(size, original) == size >= original

OriginalBlob == Blob(file.size, "input", 0)

Returned(size, ratio, blob, log) ==
    [status |-> "returned", originalSize |-> file.size, compressedSize |-> size,
     compressionRatio |-> ratio, compressedBlob |-> blob,
     quality |-> QualityOr(options.quality), optimizations |-> log,
     error |-> "none"]

\* the comparison with the input and the two return statements of the try block
Gate ==
    /\ cpc = "gate"
    /\ result' =
          IF KeepsOriginal(finalBlob.size, file.size)
          THEN Returned(OriginalBlob.size, ZeroRatio, OriginalBlob,
                        <<Entry("No compression applied - file size increased", 0)>>)
          ELSE Returned(finalBlob.size, Ratio(file.size, finalBlob.size), finalBlob,
                        optimizations)
    /\ cpc' = "done"
    /\ UNCHANGED <<impl, file, options, now, doc, analysis, optimizations,
                   bestBlob, bestSize, finalBlob, caught>>
    /\ UNCHANGED <<console, currentBlob, least>>
    /\ UNCHANGED <<orgVars, appVars>>

\* catch: an error naming an invalid PDF or a password is thrown on
CatchRethrows ==
    /\ cpc = "catch"
    /\ caught \in {"Invalid PDF", "password"}
    /\ result' = Thrown(IF caught = "Invalid PDF"
                        THEN "The file appears to be corrupted or not a valid PDF"
                        ELSE "Password-protected PDFs are not supported")
    /\ cpc' = "done"
    /\ UNCHANGED <<impl, file, options, now, doc, analysis, optimizations,
                   bestBlob, bestSize, finalBlob, caught>>
    /\ UNCHANGED <<console, currentBlob, least>>
    /\ UNCHANGED <<orgVars, appVars>>

\* catch: any other error returns the input file
CatchReturnsOriginal ==
    /\ cpc = "catch"
    /\ caught = "other"
    /\ result' = Returned(OriginalBlob.size, ZeroRatio, OriginalBlob,
                          <<Entry("Compression failed - original file returned", 0)>>)
    /\ cpc' = "done"
    /\ UNCHANGED <<impl, file, options, now, doc, analysis, optimizations,
                   bestBlob, bestSize, finalBlob, caught>>
    /\ UNCHANGED <<console, currentBlob, least>>
    /\ UNCHANGED <<orgVars, appVars>>

\* catch: file.arrayBuffer() throws in the fallback as well
CatchFallbackFails ==
    /\ cpc = "catch"
    /\ caught = "other"
    /\ result' = Thrown("Failed to process PDF file. Please try again or contact support.")
    /\ cpc' = "done"
    /\ UNCHANGED <<impl, file, options, now, doc, analysis, optimizations,
                   bestBlob, bestSize, finalBlob, caught>>
    /\ UNCHANGED <<console, currentBlob, least>>
    /\ UNCHANGED <<orgVars, appVars>>

CNext ==
    \/ /\ cpc = "idle"
       /\ \E i \in Impls, s \in FileSizes, ty \in FileTypes, o \in OptionSets,
             t \in Times :
             Invoke(i, [size |-> s, type |-> ty], o, t)
    \/ Validate
    \/ \E d \in LoadedDocs : Load(d)
    \/ \E k \in ErrorKinds : LoadThrows(k)
    \/ AnalyzePDFContent
    \/ ApplyOptimizations
    \/ \E s \in OutSizes(file.size) : Save(s)
    \/ \E k \in ErrorKinds : SaveThrows(k)
    \/ \E s \in OutSizes(file.size) : Strategy1(s)
    \/ Strategy1Throws
    \/ \E a, b \in OutSizes(file.size) : Strategy2(a, b)
    \/ Strategy2Throws
    \/ \E a \in OutSizes(file.size) : Strategy2SecondPassThrows(a)
    \/ \E s \in OutSizes(file.size) : Strategy3(s)
    \/ Strategy3Throws
    \/ \E s \in OutSizes(file.size) : Strategy4(s)
    \/ Strategy4Throws
    \/ RunnerReturns
    \/ \E s \in OutSizes(file.size) : Fallback(s)
    \/ \E k \in ErrorKinds : FallbackThrows(k)
    \/ Gate
    \/ CatchRethrows
    \/ CatchReturnsOriginal
    \/ CatchFallbackFails

\* ------------------------------------------- compressFile: image and video
MediaTypes == {"image/png", "video/mp4", "video/webm", "text/plain"}
MediaSizes == (1 .. MaxMediaSize) \cup {100}
\* sizes of the blob a library or the recorder returns; a recording without
\* chunks is empty
MediaOutSizes == 0 .. (MaxMediaSize + 1)

\* Math.min(30, Math.random() * 50), in percent
Estimates == 0 .. 30

\* getFileType(file), for the types above
GetFileType(type) ==
    CASE type = "image/png" -> "image"
      [] type \in {"video/mp4", "video/webm"} -> "video"
      [] OTHER -> "unknown"

\* Math.round(n / d) for n >= 0
Round(n, d) == (2 * n + d) \div (2 * d)

MediaBlob(size, content) == [size |-> size, content |-> content]

NoMediaResult ==
    [status |-> "none", originalSize |-> 0, compressedSize |-> 0,
     compressionRatio |-> ZeroRatio, compressedBlob |-> MediaBlob(0, "null"),
     error |-> "none"]

MediaThrown(message) == [NoMediaResult EXCEPT !.status = "threw", !.error = message]

\* { originalSize: file.size, compressedSize: compressedBlob.size,
\*   compressionRatio: ((file.size - compressedBlob.size) / file.size) * 100, compressedBlob }
MediaReturned(blob) ==
    [status |-> "returned", originalSize |-> mediaFile.size,
     compressedSize |-> blob.size,
     compressionRatio |-> Ratio(mediaFile.size, blob.size),
     compressedBlob |-> blob, error |-> "none"]

\* compressVideoBasic's return value: the blob is new Blob([file]), the
\* sizes are estimated from the random percentage e
BasicReturned(e) ==
    [status |-> "returned", originalSize |-> mediaFile.size,
     compressedSize |-> Round(mediaFile.size * (100 - e), 100),
     compressionRatio |-> [num |-> e, den |-> 100],
     compressedBlob |-> MediaBlob(mediaFile.size, "input"), error |-> "none"]

MInit ==
    /\ mediaPc = "idle"
    /\ mediaFile = [size |-> 1, type |-> "text/plain"]
    /\ recorderSupported = FALSE
    /\ mediaResult = NoMediaResult

\* compressFile(file): the switch on getFileType(file)
CompressFile(f, supported) ==
    /\ mediaPc = "idle"
    /\ mediaFile' = f
    /\ recorderSupported' = supported
    /\ IF GetFileType(f.type) = "image"
       THEN mediaPc' = "compressImage" /\ mediaResult' = NoMediaResult
       ELSE IF GetFileType(f.type) = "video"
            THEN mediaPc' = "compressVideo" /\ mediaResult' = NoMediaResult
            ELSE mediaPc' = "done" /\ mediaResult' = MediaThrown("Unsupported file type")
    /\ UNCHANGED <<orgVars, cVars, hVars>>

\* compressImage: imageCompression returns a blob of size bytes
CompressImage(size) ==
    /\ mediaPc = "compressImage"
    /\ mediaResult' = MediaReturned(MediaBlob(size, "image"))
    /\ mediaPc' = "done"
    /\ UNCHANGED <<mediaFile, recorderSupported>>
    /\ UNCHANGED <<orgVars, cVars, hVars>>

\* compressImage: imageCompression throws
CompressImageThrows ==
    /\ mediaPc = "compressImage"
    /\ mediaResult' = MediaThrown("Failed to compress image file")
    /\ mediaPc' = "done"
    /\ UNCHANGED <<mediaFile, recorderSupported>>
    /\ UNCHANGED <<orgVars, cVars, hVars>>

\* compressVideo: the basic function when the recorder is not supported,
\* else the advanced one
CompressVideo ==
    /\ mediaPc = "compressVideo"
    /\ mediaPc' = IF recorderSupported THEN "compressVideoAdvanced"
                  ELSE "compressVideoBasic"
    /\ UNCHANGED <<mediaFile, recorderSupported, mediaResult>>
    /\ UNCHANGED <<orgVars, cVars, hVars>>

\* compressVideoAdvanced resolves with the recorded blob of size bytes
CompressVideoAdvanced(size) ==
    /\ mediaPc = "compressVideoAdvanced"
    /\ mediaResult' = MediaReturned(MediaBlob(size, "webm"))
    /\ mediaPc' = "done"
    /\ UNCHANGED <<mediaFile, recorderSupported>>
    /\ UNCHANGED <<orgVars, cVars, hVars>>

\* compressVideoAdvanced rejects: the catch of compressVideo calls
\* compressVideoBasic
CompressVideoAdvancedRejects ==
    /\ mediaPc = "compressVideoAdvanced"
    /\ mediaPc' = "compressVideoBasic"
    /\ UNCHANGED <<mediaFile, recorderSupported, mediaResult>>
    /\ UNCHANGED <<orgVars, cVars, hVars>>

\* compressVideoBasic with estimatedCompression = e
CompressVideoBasic(e) ==
    /\ mediaPc = "compressVideoBasic"
    /\ mediaResult' = BasicReturned(e)
    /\ mediaPc' = "done"
    /\ UNCHANGED <<mediaFile, recorderSupported>>
    /\ UNCHANGED <<orgVars, cVars, hVars>>

MNext ==
    \/ \E sz \in MediaSizes, ty \in MediaTypes, supported \in BOOLEAN :
          CompressFile([size |-> sz, type |-> ty], supported)
    \/ \E sz \in MediaOutSizes : CompressImage(sz)
    \/ CompressImageThrows
    \/ CompressVideo
    \/ \E sz \in MediaOutSizes : CompressVideoAdvanced(sz)
    \/ CompressVideoAdvancedRejects
    \/ \E e \in Estimates : CompressVideoBasic(e)

\* -------------------------------------------------- Home.handleCompression
\* 10 * 1024 * 1024
TenMB == 10 * 1024 * 1024

\* files the user can pick: two names, small or over 10MB
Files == [name : {"a", "b"}, size : {1, TenMB + 1}]
\* what one call of handleFileSelect receives
Picks == {<<f>> : f \in Files} \cup {<<f, g>> : f \in Files, g \in Files}

\* files.filter(file => file.size <= 10 * 1024 * 1024)
ValidFiles(files) == LET Fits(f) == f.size <= TenMB IN SelectSeq(files, Fits)

\* prev.filter((_, i) => i !== index), index from 0
RemovedAt(files, index) ==
    [k \in 1 .. (Len(files) - 1) |-> IF k - 1 < index THEN files[k] ELSE files[k + 1]]

\* the result of compressing f, as far as the page shows it
ResultOf(f) == [fileName |-> f.name, originalSize |-> f.size]

\* ((i + 1) / selectedFiles.length) * 100, kept as the fraction num / den
Progress(done, total) == [num |-> done, den |-> total]
\* setCompressionProgress(0), setCompressionProgress(100)
Progress0 == [num |-> 0, den |-> 1]
Progress100 == [num |-> 1, den |-> 1]

\* results.unshift(result) in place of push
Pushed_Front(rs, r) == <<r>> \o rs

\* results.push(result)
Pushed(rs, r) == Append(rs, r)

HInit ==
    /\ selectedFiles = <<>>
    /\ isCompressing = FALSE
    /\ compressionProgress = Progress0
    /\ compressionResults = <<>>
    /\ hpc = "idle"
    /\ batch = <<>>
    /\ results = <<>>
    /\ idx = 0
    /\ succeeded = <<>>

\* handleFileSelect(files)
HandleFileSelect(files) ==
    /\ Len(selectedFiles) + Len(ValidFiles(files)) <= MaxFiles
    /\ selectedFiles' = selectedFiles \o ValidFiles(files)
    /\ UNCHANGED <<isCompressing, compressionProgress, compressionResults,
                   hpc, batch, results, idx, succeeded>>
    /\ UNCHANGED <<orgVars, cVars, mVars>>

\* handleRemoveFile(index)
HandleRemoveFile(index) ==
    /\ index < Len(selectedFiles)
    /\ selectedFiles' = RemovedAt(selectedFiles, index)
    /\ UNCHANGED <<isCompressing, compressionProgress, compressionResults,
                   hpc, batch, results, idx, succeeded>>
    /\ UNCHANGED <<orgVars, cVars, mVars>>

\* handleCompression, up to the loop. The button that calls it is rendered
\* for a non-empty selection and disabled while isCompressing; on an empty
\* selection the handler returns at once
HandleCompression ==
    /\ hpc = "idle"
    /\ ~isCompressing
    /\ Len(selectedFiles) # 0
    /\ isCompressing' = TRUE
    /\ compressionProgress' = Progress0
    /\ compressionResults' = <<>>
    /\ results' = <<>>
    /\ idx' = 0
    /\ batch' = selectedFiles
    /\ succeeded' = <<>>
    /\ hpc' = "loop"
    /\ UNCHANGED selectedFiles
    /\ UNCHANGED <<orgVars, cVars, mVars>>

\* one iteration whose compression returns a result
Compressed ==
    /\ hpc = "loop"
    /\ idx < Len(batch)
    /\ results' = Pushed(results, ResultOf(batch[idx + 1]))
    /\ compressionProgress' = Progress(idx + 1, Len(batch))
    /\ succeeded' = Append(succeeded, idx + 1)
    /\ idx' = idx + 1
    /\ UNCHANGED <<selectedFiles, isCompressing, compressionResults, hpc, batch>>
    /\ UNCHANGED <<orgVars, cVars, mVars>>

\* one iteration whose compression throws: console.error, next file
CompressionThrows ==
    /\ hpc = "loop"
    /\ idx < Len(batch)
    /\ idx' = idx + 1
    /\ UNCHANGED <<selectedFiles, isCompressing, compressionProgress,
                   compressionResults, hpc, batch, results, succeeded>>
    /\ UNCHANGED <<orgVars, cVars, mVars>>

\* after the loop
Finish ==
    /\ hpc = "loop"
    /\ idx = Len(batch)
    /\ compressionResults' = results
    /\ isCompressing' = FALSE
    /\ compressionProgress' = Progress100
    /\ hpc' = "idle"
    /\ UNCHANGED <<selectedFiles, batch, results, idx, succeeded>>
    /\ UNCHANGED <<orgVars, cVars, mVars>>

HNext ==
    \/ \E files \in Picks : HandleFileSelect(files)
    \/ \E index \in 0 .. (MaxFiles - 1) : HandleRemoveFile(index)
    \/ HandleCompression
    \/ Compressed
    \/ CompressionThrows
    \/ Finish

\* ------------------------------------------------------- specifications
Init == OrgInit /\ CInit /\ MInit /\ HInit

\* the organizer session, driven through the ids of its records
Next == OrgNext
Spec == Init /\ [][Next]_vars

\* the organizer class, called with any page id
NextApi == OrgNextApi
SpecApi == Init /\ [][NextApi]_vars

\* the organizer class, reordering a document of ReorderPages pages
NextReorder == OrgNextReorder
SpecReorder == Init /\ [][NextReorder]_vars

\* invocations of compressPDF
NextCompress == CNext
SpecCompress == Init /\ [][NextCompress]_vars

\* compressFile on an image or a video
NextMedia == MNext
SpecMedia == Init /\ [][NextMedia]_vars

\* the page's batch compression; every compression settles and the handler
\* runs on
NextBatch == HNext
SpecBatch ==
    /\ Init /\ [][NextBatch]_vars
    /\ WF_vars(Compressed \/ CompressionThrows)
    /\ WF_vars(Finish)

\* ------------------------------------------------- organizer: properties
\* the page records of the session, without the `undefined` slot
Records == LET IsRecord(p) == ~IsUndefined(p) IN SelectSeq(pages, IsRecord)
Ids(s) == {s[i].id : i \in 1 .. Len(s)}

\* C3: every page record's rotation is one of 0, 90, 180, 270 (never negative)
C3_RotationCanonical ==
    \A i \in 1 .. Len(Records) : Records[i].rotation \in {0, 90, 180, 270}

\* C4: after four rotatePage(id, 'right') calls in a row the record's rotation
\* is the value it had before the four calls
C4_FourRightsRestore ==
    (run.count = 4 /\ FirstMatch(run.id) # 0)
        => pages[FirstMatch(run.id)].rotation = run.start

\* C5: exportPDF on a loaded session with no visible record fails and
\* produces no document
C5_EmptyExportFails ==
    (lastOp.op = "exportPDF" /\ pdfDoc # Null /\ Len(Visible(Records)) = 0)
        => (lastOp.threw /\ exported.status # "ok" /\ exported.pages = <<>>)

\* C6: exportPDF on a session with N >= 1 visible records yields a document
\* of exactly N pages, the k-th a copy of the source page named by the id of
\* the k-th visible record in session order
C6_ExportVisibleInOrder ==
    (lastOp.op = "exportPDF" /\ pdfDoc # Null /\ Len(Visible(Records)) >= 1)
        => /\ exported.status = "ok"
           /\ Len(exported.pages) = Len(Visible(Records))
           /\ \A k \in 1 .. Len(exported.pages) :
                  exported.pages[k].src = Visible(Records)[k].id

\* s without its m-th element
Without(s, m) == [k \in 1 .. (Len(s) - 1) |-> IF k < m THEN s[k] ELSE s[k + 1]]

\* C6 witness: two records in the order 1, 0, the second hidden, exported as
\* the single page 1
C6_Witness ==
    /\ lastOp.op = "exportPDF" /\ exported.status = "ok"
    /\ Len(pages) = 2 /\ pages[1].id = 1 /\ ~pages[2].visible
    /\ Len(exported.pages) = 1 /\ exported.pages[1].src = 1

C8_DeletedStayDeleted ==
    \A id \in deleted :
        /\ id \notin Ids(Records)
        /\ \A k \in 1 .. Len(exported.pages) : exported.pages[k].src # id

\* C8 witness: after a deletion and further edits, an export that succeeded
C8_Witness ==
    /\ deleted # {}
    /\ lastOp.op = "exportPDF"
    /\ exported.status = "ok"
    /\ Len(exported.pages) = 1 /\ exported.pages[1].src # NoId
    /\ exported.pages[1].rotation # 0

\* C9: movePage(id, 'up') on the first record and movePage(id, 'down') on the
\* last record change nothing and raise no error
C9_MoveAtBoundaryNoOp ==
    [][\A id \in PageIds :
        (/\ lastOp'.op = "movePage" /\ lastOp'.id = id
         /\ id \in Ids(Records)
         /\ \/ lastOp'.dir = "up" /\ Records[1].id = id
            \/ lastOp'.dir = "down" /\ Records[Len(Records)].id = id)
            => (~lastOp'.threw /\ pages' = pages /\ pdfDoc' = pdfDoc)]_vars

\* C9 witness: movePage has returned for the only record of a session that
\* a two-page document was loaded into
C9_Witness ==
    /\ lastOp.op = "movePage" /\ ~lastOp.threw
    /\ pdfDoc = 2 /\ Len(pages) = 1 /\ pages[1].id = lastOp.id

\* C10: the position field of the records (pageNumber - 1) is a permutation
\* of 0 .. pageCount-1 and equals each record's position in session order
C10_PositionField ==
    /\ {Records[i].pageNumber - 1 : i \in 1 .. Len(Records)} = 0 .. (Len(Records) - 1)
    /\ \A i \in 1 .. Len(Records) : Records[i].pageNumber - 1 = i - 1

\* the source pages an export holds
Sources(out) == {out[k].src : k \in 1 .. Len(out)}

\* C11: togglePageVisibility(id) flips the visible flag of the record with
\* that id and changes nothing else; a second call restores the session; and
\* an export holds the page of a record exactly when the record is visible
C11_ToggleFlipsOnlyVisible ==
    [][/\ \A id \in PageIds :
            (lastOp'.op = "togglePageVisibility" /\ lastOp'.id = id
             /\ id \in Ids(Records))
                => LET m == FirstMatch(id)
                   IN  /\ ~lastOp'.threw
                       /\ pdfDoc' = pdfDoc
                       /\ Len(pages') = Len(pages)
                       /\ \A i \in 1 .. Len(pages) : i # m => pages'[i] = pages[i]
                       /\ pages'[m].id = id
                       /\ pages'[m].rotation = pages[m].rotation
                       /\ pages'[m].pageNumber = pages[m].pageNumber
                       /\ pages'[m].visible = ~pages[m].visible
                       /\ [pages' EXCEPT ![m] = Toggled(pages'[m])] = pages
       /\ (lastOp'.op = "exportPDF" /\ exported'.status = "ok")
            => \A i \in 1 .. Len(pages') :
                   (pages'[i].id \in Sources(exported'.pages)) <=> pages'[i].visible
      ]_vars

\* C11 witness: the second record of a two-page session, rotated, has just
\* been hidden by togglePageVisibility
C11_Witness ==
    /\ lastOp.op = "togglePageVisibility" /\ ~lastOp.threw
    /\ Len(pages) = 2 /\ pages[2].id = lastOp.id
    /\ ~pages[2].visible /\ pages[2].rotation # 0 /\ pages[1].visible

\* C12: exportPDF leaves the record list and the loaded document as they
\* were, and an export that follows an export with no edit between them
\* yields the same pages with the same rotations
C12_ExportLeavesSession ==
    [][lastOp'.op = "exportPDF"
        => /\ pages' = pages
           /\ pdfDoc' = pdfDoc
           /\ lastOp.op = "exportPDF" => exported' = exported]_vars

\* C12 witness: an export of two pages in the order 1, 0, the first rotated
C12_Witness ==
    /\ lastOp.op = "exportPDF" /\ exported.status = "ok"
    /\ Len(exported.pages) = 2
    /\ exported.pages[1].src = 1 /\ exported.pages[1].rotation # 0
    /\ exported.pages[2].src = 0

\* C25: movePage(id, up/down) for a record not at that boundary swaps the
\* record with its neighbour, visible or not; every other record stays where
\* it was and no record changes
C25_MoveSwapsNeighbours ==
    [][\A id \in SessionIds :
        LET m == FirstMatch(id)
            n == IF lastOp'.dir = "up" THEN m - 1 ELSE m + 1
        IN  (/\ lastOp'.op = "movePage" /\ lastOp'.id = id
             /\ n >= 1 /\ n <= Len(pages))
                => /\ ~lastOp'.threw
                   /\ pdfDoc' = pdfDoc
                   /\ Len(pages') = Len(pages)
                   /\ pages'[n] = pages[m]
                   /\ pages'[m] = pages[n]
                   /\ \A i \in 1 .. Len(pages) : i \notin {m, n} => pages'[i] = pages[i]
                   /\ Ids(pages') = Ids(pages)]_vars

\* C25 witness: record 0 has moved down past the hidden record 1, the third
\* record, rotated, stayed third
C25_Witness ==
    /\ lastOp.op = "movePage" /\ lastOp.id = 0 /\ lastOp.dir = "down"
    /\ Len(pages) = 3
    /\ pages[1].id = 1 /\ ~pages[1].visible
    /\ pages[2].id = 0
    /\ pages[3].id = 2 /\ pages[3].rotation # 0

\* C26: rotatePage, movePage, togglePageVisibility and deletePage called with
\* an id that no record has leave the session as it was, a list of page
\* records, and raise no error
C26_AbsentIdNoOp ==
    [][(/\ lastOp'.op \in {"rotatePage", "movePage", "togglePageVisibility", "deletePage"}
        /\ ~HasHole
        /\ lastOp'.id \notin Ids(pages))
            => /\ ~lastOp'.threw
               /\ pages' = pages
               /\ \A j \in 1 .. Len(pages') : ~IsUndefined(pages'[j])]_vars

\* C27: the Move Up button of a record is enabled exactly when the record is
\* not first in the current order, the Move Down button exactly when it is
\* not last
C27_MoveButtonsFollowPosition ==
    \A i \in 1 .. Len(pages) :
        /\ ~MoveUpDisabled(pages[i]) <=> i # 1
        /\ ~MoveDownDisabled(pages[i]) <=> i # Len(pages)

\* ------------------------------------------------ compressor: properties
\* C1: whenever compressPDF returns a result, its compressedSize is at most
\* its originalSize, which is the size of the input file
C1_OutputNeverLarger ==
    result.status = "returned"
        => /\ result.originalSize = file.size
           /\ result.compressedSize <= result.originalSize

\* C1 witness: a candidate of the runner, smaller than the input, was returned
C1_Witness ==
    /\ result.status = "returned" /\ caught = "none"
    /\ result.compressedBlob.from = "strategy2"
    /\ result.compressedSize < result.originalSize

NoReductionEntry == Entry("No compression applied - file size increased", 0)
Entries(log) == {log[i] : i \in 1 .. Len(log)}

\* C2: a candidate at least as large as the input is discarded for the input
\* bytes, ratio 0 and a log that says nothing was gained; a smaller candidate
\* is returned with the accumulated log and the ratio
\* (original - output) / original * 100, which is positive
C2_SafetyGate ==
    (result.status = "returned" /\ caught = "none")
        => IF finalBlob.size >= file.size
           THEN /\ result.compressedBlob = OriginalBlob
                /\ result.compressedSize = file.size
                /\ result.compressionRatio.num = 0
                /\ NoReductionEntry \in Entries(result.optimizations)
           ELSE /\ result.compressedBlob = finalBlob
                /\ result.compressedSize = finalBlob.size
                /\ result.optimizations = optimizations
                /\ result.compressionRatio.den = file.size
                /\ result.compressionRatio.num = file.size - result.compressedSize
                /\ result.compressionRatio.num > 0

\* C2 witness: the gate has decided on a candidate exactly as large as the input
C2_Witness ==
    /\ result.status = "returned" /\ caught = "none"
    /\ finalBlob.size = file.size

\* C13: an empty file, a file whose type is not application/pdf and a file
\* over the size limit are rejected before PDFDocument.load is attempted and
\* before any other processing; the invocation throws and returns no result
C13_RejectedBeforeParse ==
    (/\ cpc # "idle"
     /\ file.size = 0 \/ file.type # PdfType \/ file.size > MaxFileSize)
        => /\ cpc \in {"validate", "done"}
           /\ doc = NoDoc /\ analysis = "none" /\ optimizations = <<>>
           /\ finalBlob = NullBlob /\ bestBlob = NullBlob /\ caught = "none"
           /\ cpc = "done" => result.status = "threw"

\* C13 witness: a PDF file one byte over the limit has been rejected
C13_Witness ==
    /\ cpc = "done" /\ result.status = "threw"
    /\ file.type = PdfType /\ file.size = MaxFileSize + 1
    /\ doc = NoDoc

\* C14: when PDFDocument.load fails, compressPDF throws to the caller; it
\* never returns a result that carries the input bytes
C14_LoadFailureThrows ==
    (cpc = "done" /\ caught # "none" /\ doc = NoDoc)
        => result.status = "threw"

FailureEntry == Entry("Compression failed - original file returned", 0)

\* C15: when each of the four strategies of the runner has thrown, compressPDF
\* returns a result with the input bytes, ratio 0 and a log entry that
\* explains that compression failed; it does not throw
C15_AllFailedReturnsOriginal ==
    (cpc = "done" /\ Len(console) = 4)
        => /\ result.status = "returned"
           /\ result.compressedBlob = OriginalBlob
           /\ result.compressionRatio.num = 0
           /\ \/ FailureEntry \in Entries(result.optimizations)
              \/ NoReductionEntry \in Entries(result.optimizations)

\* the log entry of the strategy that produced a blob
StrategyEntry(from) ==
    Entry(CASE from = "strategy1" -> "Document re-creation with ultra-aggressive settings"
            [] from = "strategy2" -> "Multi-pass compression with reload"
            [] from = "strategy3" -> "Content-aware compression applied"
            [] from = "strategy4" -> "Font optimization applied"
            [] from = "fallback" -> "Fallback compression applied"
            [] OTHER -> "none",
          0)

Processing(o) ==
    <<RemovesMetadata(o), UsesRunner(o),
      IF UsesRunner(o) THEN 1 ELSE GetCompressionOptions(QualityOr(o.quality)),
      AppliedOptimizations(doc, o, file.size)>>

\* o and p differ in the option named by field and in nothing else
DifferOnlyIn(o, p, field) ==
    /\ o[field] # p[field]
    /\ \A f \in DOMAIN o : f # field => o[f] = p[f]

\* C17: no option among quality, removeMetadata and optimizeImages is
\* ignored: an invocation that differs from this one in one of them only
\* differs in the processing or in the log, under every quality
C17_NoOptionIgnored ==
    (cpc = "optimize" /\ options.quality \in Qualities)
        => \A o \in OptionSets :
              \A field \in {"quality", "removeMetadata", "optimizeImages"} :
                 (o.quality \in Qualities /\ DifferOnlyIn(o, options, field))
                    => Processing(o) # Processing(options)

\* the position after a strategy
AfterStrategy(pc) ==
    CASE pc = "strategy1" -> "strategy2"
      [] pc = "strategy2" -> "strategy3"
      [] pc = "strategy3" -> "strategy4"
      [] OTHER -> "fallback"

\* C18: a strategy that throws does not end the runner: nothing is thrown on,
\* the next strategy is attempted, the best candidate stays as it was, and the
\* failure is recorded as an entry of the log
C18_FailureIsolatedAndLogged ==
    [][Len(console') > Len(console)
        => /\ caught' = "none"
           /\ cpc' = AfterStrategy(cpc)
           /\ bestBlob' = bestBlob /\ bestSize' = bestSize
           /\ Len(optimizations') = Len(optimizations) + 1]_vars

C20_SecondPassSmallerThanFirst ==
    (cpc = "strategy3" /\ bestBlob.from = "strategy2")
        => bestBlob.size < currentBlob.size

RunnerBlobs == {"strategy1", "strategy2", "strategy3", "strategy4", "fallback"}

MetadataEntry == Entry("Metadata removed", 0)
Count(log, e) == Cardinality({i \in 1 .. Len(log) : log[i] = e})

C23_DatesIndependentOfTime ==
    (cpc = "optimize" /\ RemovesMetadata(options))
        => \A t \in Times : OptimizedDoc(doc, options, t) = OptimizedDoc(doc, options, now)

\* first-match precedence over the signals
Precedence(images, graphics, fonts, metadata, pageCount) ==
    CASE images /\ graphics -> "image_optimization"
      [] ~(images /\ graphics) /\ fonts -> "font_optimization"
      [] ~(images /\ graphics) /\ ~fonts /\ metadata -> "metadata_removal"
      [] ~(images /\ graphics) /\ ~fonts /\ ~metadata /\ pageCount > 10 -> "multi_pass"
      [] OTHER -> "ultra_aggressive"

\* C24: analyzePDFContent maps the signals to one tag by first-match
\* precedence and does not change the document
C24_AnalysisPrecedenceNoMutation ==
    [][(cpc = "analyze" /\ cpc' # "analyze")
        => /\ analysis' = Precedence(HasImages(doc), HasComplexGraphics(doc),
                                     HasEmbeddedFonts(doc), HasMetadata(doc),
                                     doc.pageCount)
           /\ doc' = doc]_vars

\* C28: a result that reports quality 'screen' comes from an invocation in
\* which the metadata block and the strategies ran
C28_ReportedQualityApplied ==
    (/\ result.status = "returned" /\ impl = "test-compression"
     /\ caught = "none" /\ result.quality = "screen")
        => /\ doc.dates # "original"
           /\ finalBlob.from \in RunnerBlobs

\* ------------------------------------------------------ media and batch
\* C29: a result's compressedSize is the size of its compressedBlob, and its
\* compressionRatio is 0 when the blob is the input file
C29_ResultSelfConsistent ==
    mediaResult.status = "returned"
        => /\ mediaResult.compressedSize = mediaResult.compressedBlob.size
           /\ (/\ mediaResult.compressedBlob.content = "input"
               /\ mediaResult.compressedBlob.size = mediaFile.size)
                => mediaResult.compressionRatio.num = 0

\* a / b <= c / d
Leq(p, q) == p.num * q.den <= q.num * p.den

Increasing(seq) == \A j, k \in 1 .. Len(seq) : j < k => seq[j] < seq[k]

\* C30: the files are compressed one after the other in the order of the
\* selection; a file whose compression throws is skipped and the next one
\* follows; the results published are those of the files that succeeded, in
\* that order; progress never goes down during the run; and every run ends
\* with isCompressing = false and progress = 100
C30_BatchCompression ==
    /\ [][/\ isCompressing => Leq(compressionProgress, compressionProgress')
          /\ (isCompressing /\ idx' # idx) => idx' = idx + 1
          /\ (isCompressing /\ ~isCompressing')
                => /\ idx = Len(batch)
                   /\ Increasing(succeeded)
                   /\ Len(compressionResults') = Len(succeeded)
                   /\ \A k \in 1 .. Len(succeeded) :
                          compressionResults'[k] = ResultOf(batch[succeeded[k]])
                   /\ compressionProgress' = Progress100
         ]_vars
    /\ (isCompressing ~> (~isCompressing /\ compressionProgress = Progress100))

\* C30 witness: a run over three files has ended; the second file failed,
\* the results of the first and the third, of different names, are published
C30_Witness ==
    /\ ~isCompressing /\ hpc = "idle"
    /\ Len(batch) = 3 /\ succeeded = <<1, 3>>
    /\ batch[1].name # batch[3].name
    /\ compressionResults = <<ResultOf(batch[1]), ResultOf(batch[3])>>
    /\ compressionProgress = Progress100

====
